---- MODULE Spec2Model ----
(***************************************************************************)
(* A model of dca.py: the DCA grid calculator (DCABot.calculate_strategy)  *)
(* and the file-backed strategy store (save_strategy, delete_strategy,     *)
(* load_all_strategies).                                                   *)
(*                                                                         *)
(* Numbers.  The program computes with Python floats.  The model computes  *)
(* with exact rationals [num, den] (den > 0, lowest terms), and round(x, 2)*)
(* is the nearest multiple of 1/100, ties to even, which is what CPython   *)
(* returns whenever the float is the exact value.  The inputs of the model *)
(* are chosen so that no rounding falls on a tie the float misses: the     *)
(* grids of the model are, field by field, the grids the program prints    *)
(* for the same inputs.                                                    *)
(***************************************************************************)
EXTENDS Integers, Sequences, FiniteSets, TLC

VARIABLES
    \* ---- calculate_strategy: arguments, locals, position, result
    params,             \* the seven arguments
    pc,                 \* "start" | "loop" | "returned" | "raised"
    strategy,           \* the local list of records
    cumulative_spent,
    cumulative_volume,
    last_price,
    last_order_size,
    current_deviation,
    i,                  \* the loop index
    stages,             \* the unrounded locals of every stage so far
    result,             \* the returned list, or the exception raised
    \* ---- the strategy store
    file,               \* content of dca_strategies.json
    clock,              \* datetime.now(), in seconds
    spc,                \* per session: position inside a store call
    data,               \* per session: the local dict `data`
    call,               \* per session: the call in progress (name, ...)
    ret,                \* per session: what the last call returned or raised
    log,                \* the calls completed so far, in completion order
    overlap             \* two calls on one name have been in progress together

calcVars  == <<params, pc, strategy, cumulative_spent, cumulative_volume,
               last_price, last_order_size, current_deviation, i, stages, result>>
storeVars == <<file, clock, spc, data, call, ret, log, overlap>>
vars      == <<calcVars, storeVars>>

-----------------------------------------------------------------------------
(* Bounds of the model.                                                    *)
MaxSafetyOrders == 2
MaxOps          == 4
MaxConcOps      == 3
MaxClock        == 1

-----------------------------------------------------------------------------
(* Exact rational arithmetic standing for Python's float operators.        *)

Abs(n) == IF n < 0 THEN -n ELSE n

RECURSIVE Gcd(_, _)
Gcd(a, b) == IF b = 0 THEN a ELSE Gcd(b, a % b)

R(n, d) ==
    LET g == Gcd(Abs(n), Abs(d))
        s == IF d < 0 THEN -1 ELSE 1
    IN  [num |-> s * (n \div g), den |-> s * (d \div g)]

Zero    == R(0, 1)
One     == R(1, 1)
Hundred == R(100, 1)

\* a + b, over the least common denominator
RAdd(a, b) ==
    LET g == Gcd(a.den, b.den)
    IN  R(a.num * (b.den \div g) + b.num * (a.den \div g), (a.den \div g) * b.den)

RNeg(a) == [num |-> -a.num, den |-> a.den]

RSub(a, b) == RAdd(a, RNeg(b))

\* a * b, cancelling across before multiplying
RMul(a, b) ==
    LET g1 == Gcd(Abs(a.num), b.den)
        g2 == Gcd(Abs(b.num), a.den)
    IN  R((a.num \div g1) * (b.num \div g2), (a.den \div g2) * (b.den \div g1))

\* a / b for b # 0 (Python raises ZeroDivisionError for b = 0: the callers test)
RDiv(a, b) ==
    RMul(a, IF b.num < 0 THEN [num |-> -b.den, den |-> -b.num]
                         ELSE [num |-> b.den, den |-> b.num])

RLt(a, b) == RSub(a, b).num < 0
RLe(a, b) == RSub(a, b).num <= 0
RPos(a)   == a.num > 0

\* round(x, 2): the nearest multiple of 1/100, a tie going to the even one
Round2(x) ==
    LET q    == x.num \div x.den
        r    == x.num % x.den
        d1   == (10 * r) \div x.den
        r1   == (10 * r) % x.den
        d2   == (10 * r1) \div x.den
        rem  == (10 * r1) % x.den
        k0   == 100 * q + 10 * d1 + d2
        k    == IF rem > x.den - rem THEN k0 + 1
                ELSE IF rem < x.den - rem THEN k0
                ELSE IF k0 % 2 = 0 THEN k0 ELSE k0 + 1
    IN  R(k, 100)

-----------------------------------------------------------------------------
(* The inputs of calculate_strategy.                                       *)

BasePriceSet   == {R(100, 1), R(1, 8), R(0, 1), R(-100, 1)}
BaseOrderSet   == {R(100, 1), R(25, 2)}
PriceStepSet   == {R(0, 1), R(4, 1), R(50, 1), R(100, 1), R(150, 1)}
VolumeScaleSet == {R(1, 2), R(1, 1), R(3, 2)}
StepScaleSet   == {R(1, 2), R(1, 1), R(2, 1)}
TpPctSet       == {R(25, 1), R(-1, 1)}

\* Scenario A: the defaults of main() (lines 103-106) with 2 safety orders
ScenarioA ==
    [base_price |-> R(50000, 1), base_order |-> R(100, 1), safety_orders |-> 2,
     price_step |-> R(2, 1), volume_scale |-> R(3, 2), step_scale |-> R(11, 10),
     tp_pct |-> R(3, 2)]

ParamSpace ==
    [base_price : BasePriceSet, base_order : BaseOrderSet,
     safety_orders : 0..MaxSafetyOrders, price_step : PriceStepSet,
     volume_scale : VolumeScaleSet, step_scale : StepScaleSet,
     tp_pct : TpPctSet] \cup {ScenarioA}

NoValue == [num |-> 0, den |-> 0]

-----------------------------------------------------------------------------
(* calculate_strategy                                                      *)

StepLabel(k) == IF k = 0 THEN "Base" ELSE "SO #" \o ToString(k)

TpTargetNoPercent(avg, tp_pct) == RMul(avg, RAdd(One, tp_pct))

TpTarget(avg, tp_pct) == RMul(avg, RAdd(One, RDiv(tp_pct, Hundred)))

BaseRecord(p) ==
    [Step            |-> StepLabel(0),
     BuyPrice        |-> Round2(p.base_price),
     OrderSize       |-> Round2(p.base_order),
     TotalInvestment |-> Round2(p.base_order),
     AvgPrice        |-> Round2(p.base_price),
     TPTarget        |-> Round2(TpTarget(p.base_price, p.tp_pct)),
     DropPct         |-> Zero]

BuyPrice(last, deviation) == RMul(last, RSub(One, RDiv(deviation, Hundred)))

OrderSize(last, volume_scale) == RMul(last, volume_scale)

NextSpentRounded(spent, order_size) == RAdd(spent, Round2(order_size))

NextSpent(spent, order_size) == RAdd(spent, order_size)

NextVolume(volume, order_size, buy_price) == RAdd(volume, RDiv(order_size, buy_price))

NextDeviation(deviation, step_scale) == RMul(deviation, step_scale)

DropPercent(base_price, buy_price) ==
    RMul(RDiv(RSub(base_price, buy_price), base_price), Hundred)

SafetyRecord(k, buy_price, order_size, spent, avg_price, p) ==
    [Step            |-> StepLabel(k),
     BuyPrice        |-> Round2(buy_price),
     OrderSize       |-> Round2(order_size),
     TotalInvestment |-> Round2(spent),
     AvgPrice        |-> Round2(avg_price),
     TPTarget        |-> Round2(TpTarget(avg_price, p.tp_pct)),
     DropPct         |-> Round2(DropPercent(p.base_price, buy_price))]

\* line 38: range(1, safety_orders + 1)
InRangeExclusive(k, n) == k < n

InRange(k, n) == k <= n

Stage(deviation, buy_price, order_size, spent, volume, avg_price) ==
    [deviation |-> deviation, buy_price |-> buy_price, order_size |-> order_size,
     cumulative_spent |-> spent, cumulative_volume |-> volume,
     avg_price |-> avg_price]

CalcInitWith(P) ==
    /\ params \in P
    /\ pc = "start"
    /\ strategy = <<>>
    /\ cumulative_spent = NoValue
    /\ cumulative_volume = NoValue
    /\ last_price = NoValue
    /\ last_order_size = NoValue
    /\ current_deviation = NoValue
    /\ i = 0
    /\ stages = <<>>
    /\ result = "none"

\* lines 19-35: the locals and the Base record; base_price = 0 raises at line 21
CalcStart ==
    /\ pc = "start"
    /\ IF params.base_price = Zero
       THEN /\ pc' = "raised"
            /\ result' = "ZeroDivisionError"
            /\ UNCHANGED <<strategy, cumulative_spent, cumulative_volume, last_price,
                           last_order_size, current_deviation, i, stages>>
       ELSE /\ cumulative_spent' = params.base_order
            /\ cumulative_volume' = RDiv(params.base_order, params.base_price)
            /\ last_price' = params.base_price
            /\ last_order_size' = params.base_order
            /\ current_deviation' = params.price_step
            /\ strategy' = <<BaseRecord(params)>>
            /\ stages' = <<Stage(Zero, params.base_price, params.base_order,
                                 params.base_order,
                                 RDiv(params.base_order, params.base_price),
                                 params.base_price)>>
            /\ i' = 1
            /\ pc' = "loop"
            /\ UNCHANGED result
    /\ UNCHANGED <<params, storeVars>>

\* lines 38-58: one iteration of the loop; a zero buy price raises at line 43,
\* a zero cumulative volume at line 44, and the frame with its locals is gone
CalcStep ==
    /\ pc = "loop"
    /\ InRange(i, params.safety_orders)
    /\ LET buy_price  == BuyPrice(last_price, current_deviation)
           order_size == OrderSize(last_order_size, params.volume_scale)
           spent      == NextSpent(cumulative_spent, order_size)
       IN  IF buy_price = Zero \/ NextVolume(cumulative_volume, order_size, buy_price) = Zero
           THEN /\ pc' = "raised"
                /\ result' = "ZeroDivisionError"
                /\ UNCHANGED <<strategy, cumulative_spent, cumulative_volume, last_price,
                               last_order_size, current_deviation, i, stages>>
           ELSE LET volume    == NextVolume(cumulative_volume, order_size, buy_price)
                    avg_price == RDiv(spent, volume)
                IN  /\ cumulative_spent' = spent
                    /\ cumulative_volume' = volume
                    /\ strategy' = Append(strategy,
                           SafetyRecord(i, buy_price, order_size, spent, avg_price, params))
                    /\ stages' = Append(stages,
                           Stage(current_deviation, buy_price, order_size, spent,
                                 volume, avg_price))
                    /\ last_price' = buy_price
                    /\ last_order_size' = order_size
                    /\ current_deviation' = NextDeviation(current_deviation, params.step_scale)
                    /\ i' = i + 1
                    /\ UNCHANGED <<pc, result>>
    /\ UNCHANGED <<params, storeVars>>

\* line 60
CalcReturn ==
    /\ pc = "loop"
    /\ ~InRange(i, params.safety_orders)
    /\ pc' = "returned"
    /\ result' = strategy
    /\ UNCHANGED <<params, strategy, cumulative_spent, cumulative_volume, last_price,
                   last_order_size, current_deviation, i, stages, storeVars>>


-----------------------------------------------------------------------------
(* The strategy store: dca_strategies.json and the calls that read and     *)
(* write it.  A dict is the sequence of its (key, value) pairs in          *)
(* insertion order, as Python keeps it and json.dump writes it.            *)

Sessions == {1, 2}
Names    == {"A", "B"}

\* what main() saves: the parameters of the form and the grid computed from them
StoreParams ==
    {[ScenarioA EXCEPT !.safety_orders = 0],
     [base_price |-> R(1, 8), base_order |-> R(25, 2), safety_orders |-> 0,
      price_step |-> R(4, 1), volume_scale |-> R(1, 1), step_scale |-> R(1, 1),
      tp_pct |-> R(25, 1)]}

GridOf(p) == <<BaseRecord(p)>>

DictKeys(d) == {d[k].key : k \in 1..Len(d)}

DictHas(d, key) == key \in DictKeys(d)

\* data.setdefault(name, value)
DictSetDefault(d, key, value) ==
    IF DictHas(d, key) THEN d ELSE Append(d, [key |-> key, value |-> value])

\* data[name] = value: an existing key keeps its place and gets the new value,
\* a new key goes last
DictSet(d, key, value) ==
    IF DictHas(d, key)
    THEN [k \in 1..Len(d) |-> IF d[k].key = key THEN [key |-> key, value |-> value] ELSE d[k]]
    ELSE Append(d, [key |-> key, value |-> value])

\* del data[name]
DictDel(d, key) == SelectSeq(d, LAMBDA e : e.key # key)

\* The file: missing, a JSON document holding a dict, or text json.load rejects
\* (the empty text a file holds right after open(.., 'w') is such a text).
MissingFile   == [kind |-> "missing", entries |-> <<>>]
InvalidFile   == [kind |-> "invalid", entries |-> <<>>]
JsonDump(d)   == [kind |-> "json", entries |-> d]
JsonLoad(f)   == f.entries

\* lines 12-15: a missing file is created holding {}, an existing one is left alone
ensure_storage(f) == IF f.kind = "missing" THEN JsonDump(<<>>) ELSE f

\* the exception open(.., 'r') and json.load raise on the file, or "ok"
ReadError(f) ==
    IF f.kind = "missing" THEN "FileNotFoundError"
    ELSE IF f.kind = "invalid" THEN "JSONDecodeError"
    ELSE "ok"

\* open(.., 'w') empties the file
Truncated(f) == InvalidFile

\* json.dump through a handle opened before: the document is written from
\* offset 0.  When another writer has written a longer document since this handle
\* emptied the file, the tail of that document stays behind this one and the file
\* is no JSON; documents with equally many entries are taken to be equally long.
Written(f, d) ==
    IF f.kind = "json" /\ Len(f.entries) > Len(d) THEN InvalidFile ELSE JsonDump(d)

\* lines 66-70
Entry(timestamp, p, grid) == [timestamp |-> timestamp, parameters |-> p, grid |-> grid]

\* lines 85-90
load_all_strategies(f) == IF ReadError(f) = "ok" THEN JsonLoad(f) ELSE <<>>

Returned(tag, value) == [tag |-> tag, value |-> value]
Raised(error)        == [tag |-> "raise", value |-> <<error>>]

Idle(s) == spc[s] = "idle"

\* another session is inside a call on the same name
SameNameBusy(s, name) ==
    \E t \in Sessions \ {s} : ~Idle(t) /\ call[t].name = name

NoCall == [op |-> "none", name |-> "", parameters |-> <<>>, grid |-> <<>>]

\* the calls made so far that read the file: those returned and those in progress
Started == Len(log) + Cardinality({t \in Sessions : ~Idle(t)})

Logged(c, res) == [op |-> c.op, name |-> c.name, parameters |-> c.parameters,
                   grid |-> c.grid, result |-> res]

\* lines 63-70: read the file, set data[name]
SaveRead(s, name, p, maxOps) ==
    /\ Idle(s)
    /\ Started < maxOps
    /\ IF ReadError(file) # "ok"
       THEN /\ ret' = [ret EXCEPT ![s] = Raised(ReadError(file))]
            /\ UNCHANGED <<file, clock, spc, data, call, log, overlap>>
       ELSE \E t \in clock..MaxClock :
            /\ clock' = t
            /\ data' = [data EXCEPT ![s] = DictSet(JsonLoad(file), name, Entry(t, p, GridOf(p)))]
            /\ call' = [call EXCEPT ![s] = [op |-> "save", name |-> name,
                                            parameters |-> p, grid |-> GridOf(p)]]
            /\ spc' = [spc EXCEPT ![s] = "save_open"]
            /\ overlap' = (overlap \/ SameNameBusy(s, name))
            /\ UNCHANGED <<file, ret, log>>
    /\ UNCHANGED calcVars

\* line 72
SaveOpen(s) ==
    /\ spc[s] = "save_open"
    /\ file' = Truncated(file)
    /\ spc' = [spc EXCEPT ![s] = "save_dump"]
    /\ UNCHANGED <<clock, data, call, ret, log, overlap, calcVars>>

\* line 73, and the return
SaveDump(s) ==
    /\ spc[s] = "save_dump"
    /\ file' = Written(file, data[s])
    /\ spc' = [spc EXCEPT ![s] = "idle"]
    /\ ret' = [ret EXCEPT ![s] = Returned("None", <<>>)]
    /\ log' = Append(log, Logged(call[s], "None"))
    /\ call' = [call EXCEPT ![s] = NoCall]
    /\ data' = [data EXCEPT ![s] = <<>>]
    /\ UNCHANGED <<clock, overlap, calcVars>>

\* lines 76-79 and 83: read the file; an absent name returns False at once
DeleteRead(s, name, maxOps) ==
    /\ Idle(s)
    /\ Started < maxOps
    /\ IF ReadError(file) # "ok"
       THEN /\ ret' = [ret EXCEPT ![s] = Raised(ReadError(file))]
            /\ UNCHANGED <<file, clock, spc, data, call, log, overlap>>
       ELSE IF DictHas(JsonLoad(file), name)
       THEN /\ data' = [data EXCEPT ![s] = DictDel(JsonLoad(file), name)]
            /\ call' = [call EXCEPT ![s] = [op |-> "delete", name |-> name,
                                            parameters |-> <<>>, grid |-> <<>>]]
            /\ spc' = [spc EXCEPT ![s] = "delete_open"]
            /\ overlap' = (overlap \/ SameNameBusy(s, name))
            /\ UNCHANGED <<file, clock, ret, log>>
       ELSE /\ ret' = [ret EXCEPT ![s] = Returned("False", <<>>)]
            /\ log' = Append(log, Logged([op |-> "delete", name |-> name,
                                          parameters |-> <<>>, grid |-> <<>>], "False"))
            /\ overlap' = (overlap \/ SameNameBusy(s, name))
            /\ UNCHANGED <<file, clock, spc, data, call>>
    /\ UNCHANGED calcVars

\* line 80
DeleteOpen(s) ==
    /\ spc[s] = "delete_open"
    /\ file' = Truncated(file)
    /\ spc' = [spc EXCEPT ![s] = "delete_dump"]
    /\ UNCHANGED <<clock, data, call, ret, log, overlap, calcVars>>

\* lines 81-82
DeleteDump(s) ==
    /\ spc[s] = "delete_dump"
    /\ file' = Written(file, data[s])
    /\ spc' = [spc EXCEPT ![s] = "idle"]
    /\ ret' = [ret EXCEPT ![s] = Returned("True", <<>>)]
    /\ log' = Append(log, Logged(call[s], "True"))
    /\ call' = [call EXCEPT ![s] = NoCall]
    /\ data' = [data EXCEPT ![s] = <<>>]
    /\ UNCHANGED <<clock, overlap, calcVars>>

\* lines 85-90
LoadAll(s) ==
    /\ Idle(s)
    /\ ret' = [ret EXCEPT ![s] = Returned("dict", load_all_strategies(file))]
    /\ UNCHANGED <<file, clock, spc, data, call, log, overlap, calcVars>>

-----------------------------------------------------------------------------
(* Specifications.                                                         *)

\* the store as DCABot() leaves it, no call made yet
StoreInitWith(F) ==
    /\ file \in {ensure_storage(f) : f \in F}
    /\ clock = 0
    /\ spc = [s \in Sessions |-> "idle"]
    /\ data = [s \in Sessions |-> <<>>]
    /\ call = [s \in Sessions |-> NoCall]
    /\ ret = [s \in Sessions |-> Returned("none", <<>>)]
    /\ log = <<>>
    /\ overlap = FALSE

\* what may lie at dca_strategies.json before DCABot() is constructed
FilesBefore == {MissingFile, InvalidFile, JsonDump(<<>>)}

\* calculate_strategy on every input of ParamSpace
Init == CalcInitWith(ParamSpace) /\ StoreInitWith({MissingFile})

Next == CalcStart \/ CalcStep \/ CalcReturn

Spec == Init /\ [][Next]_vars

StoreCalls(s, maxOps) ==
    \/ \E name \in Names, p \in StoreParams : SaveRead(s, name, p, maxOps)
    \/ SaveOpen(s)
    \/ SaveDump(s)
    \/ \E name \in Names : DeleteRead(s, name, maxOps)
    \/ DeleteOpen(s)
    \/ DeleteDump(s)
    \/ LoadAll(s)

\* one DCABot, its calls made one at a time
InitStore == CalcInitWith({ScenarioA}) /\ StoreInitWith(FilesBefore)

NextStore == StoreCalls(1, MaxOps)

SpecStore == InitStore /\ [][NextStore]_vars

\* two sessions of the application on one file, every step of a call its own step
NextConc == \E s \in Sessions : StoreCalls(s, MaxConcOps)

SpecConc == InitStore /\ [][NextConc]_vars

-----------------------------------------------------------------------------
(* Properties of calculate_strategy, checked under Spec.                   *)

GridReturned == pc = "returned"

\* the ranges the data model gives for the parameters
ValidRanges ==
    /\ RPos(params.base_price)
    /\ RPos(params.base_order)
    /\ params.safety_orders >= 0
    /\ RLe(Zero, params.price_step)
    /\ RPos(params.volume_scale)
    /\ RPos(params.step_scale)

SafetyLabels == <<"SO #1", "SO #2", "SO #3", "SO #4", "SO #5">>

GridLabelled(g) ==
    /\ Len(g) = params.safety_orders + 1
    /\ g[1].Step = "Base"
    /\ \A k \in 1..params.safety_orders : g[k + 1].Step = SafetyLabels[k]

BaseTakeProfit == RMul(params.base_price, RAdd(One, RDiv(params.tp_pct, Hundred)))

\* C1 as stated: for base_price > 0 and base_order > 0, a returned grid has
\* safety_orders + 1 records labelled Base, SO #1, SO #2, ...; with no safety
\* order it is the Base record alone, whose fields are the parameters themselves
\* (buy price = base_price, ..., take-profit = base_price * (1 + tp_pct/100)).
C1_GridShapeAsClaimed ==
    (GridReturned /\ RPos(params.base_price) /\ RPos(params.base_order)) =>
        /\ GridLabelled(result)
        /\ params.safety_orders = 0 =>
               result = <<[Step            |-> "Base",
                           BuyPrice        |-> params.base_price,
                           OrderSize       |-> params.base_order,
                           TotalInvestment |-> params.base_order,
                           AvgPrice        |-> params.base_price,
                           TPTarget        |-> BaseTakeProfit,
                           DropPct         |-> Zero]>>

\* C1 amended: the same, the fields of the Base record being the parameters
\* rounded to 2 decimals.
C1_GridShape ==
    (GridReturned /\ RPos(params.base_price) /\ RPos(params.base_order)) =>
        /\ GridLabelled(result)
        /\ params.safety_orders = 0 =>
               result = <<[Step            |-> "Base",
                           BuyPrice        |-> Round2(params.base_price),
                           OrderSize       |-> Round2(params.base_order),
                           TotalInvestment |-> Round2(params.base_order),
                           AvgPrice        |-> Round2(params.base_price),
                           TPTarget        |-> Round2(BaseTakeProfit),
                           DropPct         |-> Zero]>>

\* a grid of the Base record alone, for a base price of more than 2 decimals
C1_Witness ==
    /\ GridReturned
    /\ RPos(params.base_price) /\ RPos(params.base_order)
    /\ params.safety_orders = 0
    /\ Round2(params.base_price) # params.base_price
    /\ Len(result) = 1

\* C2: within the ranges of the data model, at every safety-order stage the
\* average price (cumulative spent / cumulative volume) is at most base_price and
\* at least the lowest buy price of the stages so far.
C2_AverageBetween ==
    (GridReturned /\ ValidRanges) =>
        \A k \in 2..Len(stages) :
            /\ RLe(stages[k].avg_price, params.base_price)
            /\ \E j \in 1..k : RLe(stages[j].buy_price, stages[k].avg_price)

\* C3: within the ranges of the data model, with price_step > 0, every record's
\* buy price is strictly lower than that of the record before it (stated here of
\* the unrounded buy prices, the reading most favourable to the claim).
C3_BuyPricesDecrease ==
    (GridReturned /\ ValidRanges /\ params.safety_orders >= 1 /\ RPos(params.price_step)) =>
        \A k \in 2..Len(stages) : RLt(stages[k].buy_price, stages[k - 1].buy_price)

RECURSIVE OrderAt(_)
OrderAt(k) ==
    IF k = 0 THEN params.base_order ELSE RMul(OrderAt(k - 1), params.volume_scale)

RECURSIVE SumOrders(_)
SumOrders(k) == IF k = 0 THEN OrderAt(0) ELSE RAdd(SumOrders(k - 1), OrderAt(k))

\* C4: at every stage k the cumulative-spent accumulator, of which record k's
\* total-invested field is the rounding, is the sum of the order sizes of stages
\* 0..k, stage 0's being base_order and each later one the one before it times
\* volume_scale, all unrounded.
C4_SpentIsSumOfOrders ==
    /\ \A k \in 1..Len(stages) :
           /\ stages[k].order_size = OrderAt(k - 1)
           /\ stages[k].cumulative_spent = SumOrders(k - 1)
           /\ strategy[k].TotalInvestment = Round2(SumOrders(k - 1))
    /\ pc = "loop" => cumulative_spent = SumOrders(Len(stages) - 1)

\* two safety orders whose sizes differ from the base order's
C4_Witness ==
    /\ GridReturned
    /\ Len(stages) = 3
    /\ params.volume_scale # One
    /\ stages[3].cumulative_spent # stages[2].cumulative_spent

\* C5: within the ranges of the data model, neither the cumulative amount
\* invested nor the cumulative volume bought decreases from a stage to the next.
C5_CumulativesNeverDecrease ==
    (GridReturned /\ ValidRanges) =>
        \A k \in 2..Len(stages) :
            /\ RLe(stages[k - 1].cumulative_spent, stages[k].cumulative_spent)
            /\ RLe(stages[k - 1].cumulative_volume, stages[k].cumulative_volume)

ScenarioARest(g) ==
    /\ Len(g) = 3
    /\ g[1].BuyPrice = R(50000, 1) /\ g[1].OrderSize = R(100, 1)
    /\ g[1].AvgPrice = R(50000, 1) /\ g[1].TPTarget = R(50750, 1)
    /\ g[1].DropPct = Zero
    /\ g[2].BuyPrice = R(49000, 1) /\ g[2].OrderSize = R(150, 1)
    /\ g[2].TotalInvestment = R(250, 1) /\ g[2].DropPct = R(2, 1)
    /\ stages[3].deviation = R(22, 10)
    /\ g[3].BuyPrice = R(47922, 1) /\ g[3].OrderSize = R(225, 1)
    /\ g[3].TotalInvestment = R(475, 1)

\* C6 as stated: Scenario A returns three records with the values listed, the
\* average price of record 1 being 49400.00.
C6_ScenarioAAsClaimed ==
    (GridReturned /\ params = ScenarioA) =>
        ScenarioARest(result) /\ result[2].AvgPrice = R(49400, 1)

\* C6 amended: the same, the average price of record 1 being 49395.16, which is
\* 250 / (100/50000 + 150/49000) rounded to 2 decimals.
C6_ScenarioA ==
    (GridReturned /\ params = ScenarioA) =>
        ScenarioARest(result) /\ result[2].AvgPrice = R(4939516, 100)

C6_Witness == GridReturned /\ params = ScenarioA /\ Len(result) = 3

\* C7: for every parameter set calculate_strategy fails with an error or
\* returns a grid of safety_orders + 1 records, each with a positive buy price.
C7_ErrorOrValidGrid ==
    GridReturned =>
        /\ Len(result) = params.safety_orders + 1
        /\ \A k \in 1..Len(result) : RPos(result[k].BuyPrice)

-----------------------------------------------------------------------------
(* Properties of the store, checked under SpecStore and SpecConc.          *)

Absent == [present |-> FALSE, parameters |-> <<>>, grid |-> <<>>]

\* what a mapping from names holds after the calls of a log, made in its order
RECURSIVE Replay(_)
Replay(l) ==
    IF l = <<>> THEN [n \in Names |-> Absent]
    ELSE LET m == Replay(SubSeq(l, 1, Len(l) - 1))
             e == l[Len(l)]
         IN  IF e.op = "save"
             THEN [m EXCEPT ![e.name] = [present |-> TRUE, parameters |-> e.parameters,
                                         grid |-> e.grid]]
             ELSE [m EXCEPT ![e.name] = Absent]

\* C8: from an empty store, after any sequence of save_strategy and
\* delete_strategy calls made one at a time, load_all_strategies returns exactly
\* the names saved and not deleted since, each with the parameters and grid of its
\* latest save; delete_strategy returned True exactly when the name was present
\* (so a False leaves the store as it was).  A store that is a JSON document when
\* no call is in progress is one that started empty.
C8_StoreFollowsCalls ==
    (Idle(1) /\ file.kind = "json") =>
        LET d == load_all_strategies(file)
            m == Replay(log)
        IN  /\ Cardinality(DictKeys(d)) = Len(d)
            /\ DictKeys(d) = {n \in Names : m[n].present}
            /\ \A k \in 1..Len(d) :
                   /\ d[k].value.parameters = m[d[k].key].parameters
                   /\ d[k].value.grid = m[d[k].key].grid
            /\ \A j \in 1..Len(log) :
                   log[j].op = "delete" =>
                       ((log[j].result = "True")
                            <=> Replay(SubSeq(log, 1, j - 1))[log[j].name].present)

\* a save, a save over it with other parameters, a delete of an absent name, a
\* delete of the saved one
C8_Witness ==
    /\ Idle(1) /\ file.kind = "json"
    /\ Len(log) = 4
    /\ log[1].op = "save" /\ log[2].op = "save"
    /\ log[1].name = log[2].name /\ log[1].parameters # log[2].parameters
    /\ log[3].op = "delete" /\ log[3].name # log[1].name /\ log[3].result = "False"
    /\ log[4].op = "delete" /\ log[4].name = log[1].name /\ log[4].result = "True"
    /\ load_all_strategies(file) = <<>>

\* C9: with the file missing or no valid JSON, no store call raises: the file is
\* taken for an empty store.
C9_NoCallRaises == \A s \in Sessions : ret[s].tag # "raise"

\* C10: two sessions on one file, calls on different names, their steps
\* interleaved in any order: once the calls have returned, the store holds every
\* name saved and not deleted since, and no name deleted and not saved since.
C10_NoCallLost ==
    ((\A s \in Sessions : Idle(s)) /\ ~overlap) =>
        DictKeys(load_all_strategies(file)) = {n \in Names : Replay(log)[n].present}

====
